---- MODULE Spec2Model ----
(***************************************************************************)
(* LED sequencer of app/src/main.c: init_leds, startup_blink,             *)
(* do_chase_lap and main, modelled statement by statement.                *)
(*                                                                         *)
(* The GPIO driver, the logger and printk are external collaborators.     *)
(* They are represented by what the program can observe of them: the      *)
(* readiness answer and the configure return code of every LED (chosen    *)
(* in the initial state and never changed), the logical level of every    *)
(* pin, and the lines written to the log and to the console.              *)
(***************************************************************************)
EXTENDS Integers, Sequences, FiniteSets, TLC

(* ---------------------------------------------------------------------- *)
(* Program constants                                                       *)
(* ---------------------------------------------------------------------- *)
NUM_LEDS == 4
STEP_DELAY_MS == 150
LAP_DELAY_MS == 400
STARTUP_FLASHES == 2
BLINK_ON_MS == 0
BLINK_OFF_MS == 100
ENODEV == 19

(* Errno values gpio_pin_configure_dt is documented to return:            *)
(* -EIO, -EINVAL, -ENOTSUP.                                               *)
EIO == 5
EINVAL == 22
ENOTSUP == 134
ConfigureErrors == {0 - EIO, 0 - EINVAL, 0 - ENOTSUP}

(* ---------------------------------------------------------------------- *)
(* Bounds of the model                                                     *)
(* ---------------------------------------------------------------------- *)
\* The lap counter is an observer of the endless loop; it saturates here.
MaxLaps == 3
Leds == 0 .. (NUM_LEDS - 1)

(* ---------------------------------------------------------------------- *)
(* 32-bit unsigned counters                                                *)
(* ---------------------------------------------------------------------- *)
\* size_t (on the 32-bit Cortex-M4 of the nRF52840) and uint32_t are 32 bits
\* wide.  A counter is kept as the pair <<high half, low half>> of 16-bit
\* halves, so that every value up to 2^32 - 1, the wrapped 0 - 1 included,
\* is represented exactly.
SizeBits == 32
HalfMod == 2 ^ (SizeBits \div 2)

\* The counter holding the small value v.
U32(v) == <<v \div HalfMod, v % HalfMod>>

\* The value of a counter; used as the index of leds[], below NUM_LEDS.
Val(x) == x[1] * HalfMod + x[2]

\* ++x, modulo 2^32.
U32Inc(x) ==
    IF x[2] + 1 < HalfMod THEN <<x[1], x[2] + 1>>
    ELSE <<(x[1] + 1) % HalfMod, 0>>

\* --x, modulo 2^32.
U32Dec(x) ==
    IF x[2] > 0 THEN <<x[1], x[2] - 1>>
    ELSE <<(x[1] - 1) % HalfMod, HalfMod - 1>>

\* x < y, unsigned.
U32Less(x, y) == x[1] < y[1] \/ (x[1] = y[1] /\ x[2] < y[2])

VARIABLES
    pc,         \* position of the single thread of control
    i,          \* size_t loop index of the function being executed (U32)
    n,          \* uint32_t flash counter of startup_blink (U32)
    err,        \* int err of main (the value init_leds returned)
    ret,        \* value main returned ("none" while it has not returned)
    ready,      \* ready[k]: what gpio_is_ready_dt(&leds[k]) answers
    cfgErr,     \* cfgErr[k]: what gpio_pin_configure_dt(&leds[k], ..) returns
    level,      \* level[k]: logical level of pin k (1 active, 0 inactive)
    log,        \* lines emitted through LOG_ERR / LOG_INF, in order
    console,    \* lines emitted through printk, in order
    pinOps,     \* driver calls made by init_leds and startup_blink, in order
    lapTrace,   \* driver calls and sleeps of the current do_chase_lap call
    entry,      \* pin levels at the entry of the current function call
    blinkCalls, \* number of calls of startup_blink
    laps        \* number of completed do_chase_lap calls, saturating

vars == <<pc, i, n, err, ret, ready, cfgErr, level, log, console, pinOps,
          lapTrace, entry, blinkCalls, laps>>

env == <<ready, cfgErr>>

(* ---------------------------------------------------------------------- *)
(* Driver and logger operations                                            *)
(* ---------------------------------------------------------------------- *)
\* Variant: the pin is driven active instead of inverted.
Toggle_SetActive(lv, k) == [lv EXCEPT ![k] = 1]

\* gpio_pin_toggle_dt: the logical level of pin k is inverted.
Toggle(lv, k) == [lv EXCEPT ![k] = 1 - lv[k]]

\* gpio_pin_set_dt: the logical level of pin k becomes v.
SetLevel(lv, k, v) == [lv EXCEPT ![k] = v]

IsReadyOp(k) == <<"is_ready", k>>
ConfigureOp(k) == <<"configure", k, 0>>
SetOp(k, v) == <<"set", k, v>>
ToggleOp(k) == <<"toggle", k>>
SleepOp(ms) == <<"sleep", ms>>

LogNotReady(k) == <<"ERR", "GPIO device not ready", k>>
LogConfigureFailed(k, e) == <<"ERR", "configure failed", k, e>>
LogLedsReady(cnt) == <<"INF", "LEDs ready", cnt>>
PrintkInitFailed(e) == <<"LED init failed", e>>

(* ---------------------------------------------------------------------- *)
(* Initial states                                                          *)
(* ---------------------------------------------------------------------- *)
Init ==
    /\ pc = "main"
    /\ i = U32(0)
    /\ n = U32(0)
    /\ err = 0
    /\ ret = "none"
    /\ ready \in [Leds -> BOOLEAN]
    /\ cfgErr \in [Leds -> {0} \cup ConfigureErrors]
    /\ level \in [Leds -> {0, 1}]
    /\ log = <<>>
    /\ console = <<>>
    /\ pinOps = <<>>
    /\ lapTrace = <<>>
    /\ entry = level
    /\ blinkCalls = 0
    /\ laps = 0

(* ---------------------------------------------------------------------- *)
(* init_leds                                                               *)
(* ---------------------------------------------------------------------- *)
\* main: int err = init_leds();  -- the call, and the loop initialiser.
Main_CallInit ==
    /\ pc = "main"
    /\ pc' = "init_test"
    /\ i' = U32(0)
    /\ UNCHANGED <<n, err, ret, env, level, log, console, pinOps, lapTrace,
                   entry, blinkCalls, laps>>

\* Variant: the loop bound is one short.
Init_Test_OffByOne ==
    /\ pc = "init_test"
    /\ IF U32Less(i, U32(NUM_LEDS - 1))
         THEN pc' = "init_ready" /\ err' = err
         ELSE pc' = "main_check" /\ err' = 0
    /\ UNCHANGED <<i, n, ret, env, level, log, console, pinOps, lapTrace,
                   entry, blinkCalls, laps>>

\* for (...; i < NUM_LEDS; ...) of init_leds; falling out returns 0.
Init_Test ==
    /\ pc = "init_test"
    /\ IF U32Less(i, U32(NUM_LEDS))
         THEN pc' = "init_ready" /\ err' = err
         ELSE pc' = "main_check" /\ err' = 0
    /\ UNCHANGED <<i, n, ret, env, level, log, console, pinOps, lapTrace,
                   entry, blinkCalls, laps>>

\* Variant: the error is logged but the early return is missing.
Init_Ready_NoAbort ==
    /\ pc = "init_ready"
    /\ pinOps' = Append(pinOps, IsReadyOp(Val(i)))
    /\ IF ~ready[Val(i)]
         THEN /\ log' = Append(log, LogNotReady(Val(i)))
              /\ err' = 0 - ENODEV
         ELSE UNCHANGED <<log, err>>
    /\ pc' = "init_cfg"
    /\ UNCHANGED <<i, n, ret, env, level, console, lapTrace, entry,
                   blinkCalls, laps>>

\* Variant: the early return is taken without the LOG_ERR line.
Init_Ready_Silent ==
    /\ pc = "init_ready"
    /\ pinOps' = Append(pinOps, IsReadyOp(Val(i)))
    /\ IF ~ready[Val(i)]
         THEN /\ err' = 0 - ENODEV
              /\ pc' = "main_check"
         ELSE /\ pc' = "init_cfg"
              /\ err' = err
    /\ UNCHANGED <<i, n, ret, env, level, log, console, lapTrace, entry,
                   blinkCalls, laps>>

\* if (!gpio_is_ready_dt(&leds[i])) { LOG_ERR(..); return -ENODEV; }
Init_Ready ==
    /\ pc = "init_ready"
    /\ pinOps' = Append(pinOps, IsReadyOp(Val(i)))
    /\ IF ~ready[Val(i)]
         THEN /\ log' = Append(log, LogNotReady(Val(i)))
              /\ err' = 0 - ENODEV
              /\ pc' = "main_check"
         ELSE /\ pc' = "init_cfg"
              /\ UNCHANGED <<log, err>>
    /\ UNCHANGED <<i, n, ret, env, level, console, lapTrace, entry,
                   blinkCalls, laps>>

\* Variant: a generic -EIO is returned instead of the driver's code.
Init_Configure_GenericCode ==
    /\ pc = "init_cfg"
    /\ pinOps' = Append(pinOps, ConfigureOp(Val(i)))
    /\ IF cfgErr[Val(i)] # 0
         THEN /\ log' = Append(log, LogConfigureFailed(Val(i), cfgErr[Val(i)]))
              /\ err' = 0 - EIO
              /\ pc' = "main_check"
              /\ UNCHANGED <<i, level>>
         ELSE /\ level' = SetLevel(level, Val(i), 0)
              /\ i' = U32Inc(i)
              /\ pc' = "init_test"
              /\ UNCHANGED <<log, err>>
    /\ UNCHANGED <<n, ret, env, console, lapTrace, entry, blinkCalls, laps>>

\* int err = gpio_pin_configure_dt(&leds[i], GPIO_OUTPUT_INACTIVE);
\* if (err) { LOG_ERR(..); return err; }   then ++i.
Init_Configure ==
    /\ pc = "init_cfg"
    /\ pinOps' = Append(pinOps, ConfigureOp(Val(i)))
    /\ IF cfgErr[Val(i)] # 0
         THEN /\ log' = Append(log, LogConfigureFailed(Val(i), cfgErr[Val(i)]))
              /\ err' = cfgErr[Val(i)]
              /\ pc' = "main_check"
              /\ UNCHANGED <<i, level>>
         ELSE /\ level' = SetLevel(level, Val(i), 0)
              /\ i' = U32Inc(i)
              /\ pc' = "init_test"
              /\ UNCHANGED <<log, err>>
    /\ UNCHANGED <<n, ret, env, console, lapTrace, entry, blinkCalls, laps>>

(* ---------------------------------------------------------------------- *)
(* main                                                                    *)
(* ---------------------------------------------------------------------- *)
\* Variant: the failure is printed but main does not return.
Main_InitFailed_FallThrough ==
    /\ pc = "main_check"
    /\ err # 0
    /\ console' = Append(console, PrintkInitFailed(err))
    /\ pc' = "main_blink"
    /\ UNCHANGED <<i, n, err, ret, env, level, log, pinOps, lapTrace, entry,
                   blinkCalls, laps>>

\* if (err) { printk("LED init failed: %d\n", err); return err; }
Main_InitFailed ==
    /\ pc = "main_check"
    /\ err # 0
    /\ console' = Append(console, PrintkInitFailed(err))
    /\ ret' = err
    /\ pc' = "done"
    /\ UNCHANGED <<i, n, err, env, level, log, pinOps, lapTrace, entry,
                   blinkCalls, laps>>

\* LOG_INF("LEDs ready: %u", (unsigned)NUM_LEDS);
Main_LogReady ==
    /\ pc = "main_check"
    /\ err = 0
    /\ log' = Append(log, LogLedsReady(NUM_LEDS))
    /\ pc' = "main_blink"
    /\ UNCHANGED <<i, n, err, ret, env, level, console, pinOps, lapTrace,
                   entry, blinkCalls, laps>>

\* startup_blink();  -- the call, and the initialiser of the outer loop.
Main_CallBlink ==
    /\ pc = "main_blink"
    /\ n' = U32(0)
    /\ entry' = level
    /\ blinkCalls' = blinkCalls + 1
    /\ pc' = "blink_test"
    /\ UNCHANGED <<i, err, ret, env, level, log, console, pinOps, lapTrace,
                   laps>>

(* ---------------------------------------------------------------------- *)
(* startup_blink                                                           *)
(* ---------------------------------------------------------------------- *)
\* Variant: the flash loop runs once too often.
Blink_Test_OneMore ==
    /\ pc = "blink_test"
    /\ IF ~U32Less(U32(STARTUP_FLASHES), n)
         THEN pc' = "blink_on" /\ i' = U32(0)
         ELSE pc' = "main_loop" /\ i' = i
    /\ UNCHANGED <<n, err, ret, env, level, log, console, pinOps, lapTrace,
                   entry, blinkCalls, laps>>

\* for (...; n < STARTUP_FLASHES; ...): enter the body (first inner loop
\* starts at i = 0) or return to main.
Blink_Test ==
    /\ pc = "blink_test"
    /\ IF U32Less(n, U32(STARTUP_FLASHES))
         THEN pc' = "blink_on" /\ i' = U32(0)
         ELSE pc' = "main_loop" /\ i' = i
    /\ UNCHANGED <<n, err, ret, env, level, log, console, pinOps, lapTrace,
                   entry, blinkCalls, laps>>

\* for (i = 0; i < NUM_LEDS; ++i) gpio_pin_set_dt(&leds[i], 1);
Blink_On ==
    /\ pc = "blink_on"
    /\ U32Less(i, U32(NUM_LEDS))
    /\ level' = SetLevel(level, Val(i), 1)
    /\ pinOps' = Append(pinOps, SetOp(Val(i), 1))
    /\ i' = U32Inc(i)
    /\ UNCHANGED <<pc, n, err, ret, env, log, console, lapTrace, entry,
                   blinkCalls, laps>>

\* k_msleep(000); and the initialiser of the second inner loop.
Blink_OnHold ==
    /\ pc = "blink_on"
    /\ ~(U32Less(i, U32(NUM_LEDS)))
    /\ pinOps' = Append(pinOps, SleepOp(BLINK_ON_MS))
    /\ i' = U32(0)
    /\ pc' = "blink_off"
    /\ UNCHANGED <<n, err, ret, env, level, log, console, lapTrace, entry,
                   blinkCalls, laps>>

\* for (i = 0; i < NUM_LEDS; ++i) gpio_pin_set_dt(&leds[i], 0);
Blink_Off ==
    /\ pc = "blink_off"
    /\ U32Less(i, U32(NUM_LEDS))
    /\ level' = SetLevel(level, Val(i), 0)
    /\ pinOps' = Append(pinOps, SetOp(Val(i), 0))
    /\ i' = U32Inc(i)
    /\ UNCHANGED <<pc, n, err, ret, env, log, console, lapTrace, entry,
                   blinkCalls, laps>>

\* k_msleep(100); and ++n of the outer loop.
Blink_OffHold ==
    /\ pc = "blink_off"
    /\ ~(U32Less(i, U32(NUM_LEDS)))
    /\ pinOps' = Append(pinOps, SleepOp(BLINK_OFF_MS))
    /\ n' = U32Inc(n)
    /\ pc' = "blink_test"
    /\ UNCHANGED <<i, err, ret, env, level, log, console, lapTrace, entry,
                   blinkCalls, laps>>

(* ---------------------------------------------------------------------- *)
(* do_chase_lap                                                            *)
(* ---------------------------------------------------------------------- *)
\* for (;;) { do_chase_lap(); }  -- the call, and the forward initialiser.
Main_CallLap ==
    /\ pc = "main_loop"
    /\ i' = U32(0)
    /\ entry' = level
    /\ lapTrace' = <<>>
    /\ pc' = "fwd"
    /\ UNCHANGED <<n, err, ret, env, level, log, console, pinOps,
                   blinkCalls, laps>>

\* forward body, first gpio_pin_toggle_dt(&leds[i]);
Fwd_Toggle1 ==
    /\ pc = "fwd"
    /\ U32Less(i, U32(NUM_LEDS))
    /\ level' = Toggle(level, Val(i))
    /\ lapTrace' = Append(lapTrace, ToggleOp(Val(i)))
    /\ pc' = "fwd_sleep"
    /\ UNCHANGED <<i, n, err, ret, env, log, console, pinOps, entry,
                   blinkCalls, laps>>

\* k_msleep(STEP_DELAY_MS);
Fwd_Sleep ==
    /\ pc = "fwd_sleep"
    /\ lapTrace' = Append(lapTrace, SleepOp(STEP_DELAY_MS))
    /\ pc' = "fwd_t2"
    /\ UNCHANGED <<i, n, err, ret, env, level, log, console, pinOps, entry,
                   blinkCalls, laps>>

\* forward body, second gpio_pin_toggle_dt(&leds[i]); then ++i.
Fwd_Toggle2 ==
    /\ pc = "fwd_t2"
    /\ level' = Toggle(level, Val(i))
    /\ lapTrace' = Append(lapTrace, ToggleOp(Val(i)))
    /\ i' = U32Inc(i)
    /\ pc' = "fwd"
    /\ UNCHANGED <<n, err, ret, env, log, console, pinOps, entry,
                   blinkCalls, laps>>

\* Variant: the backward loop starts below the last LED, as the inline
\* comment "skip ends" suggests.
Fwd_Exit_SkipEnd ==
    /\ pc = "fwd"
    /\ ~(U32Less(i, U32(NUM_LEDS)))
    /\ i' = U32(NUM_LEDS - 1)
    /\ pc' = "bwd"
    /\ UNCHANGED <<n, err, ret, env, level, log, console, pinOps, lapTrace,
                   entry, blinkCalls, laps>>

\* forward loop exit; initialiser i = NUM_LEDS of the backward loop.
Fwd_Exit ==
    /\ pc = "fwd"
    /\ ~(U32Less(i, U32(NUM_LEDS)))
    /\ i' = U32(NUM_LEDS)
    /\ pc' = "bwd"
    /\ UNCHANGED <<n, err, ret, env, level, log, console, pinOps, lapTrace,
                   entry, blinkCalls, laps>>

\* for (...; i-- > 0; ): compare the old i with 0, then decrement it
\* (size_t arithmetic, so the last decrement wraps).
Bwd_Test ==
    /\ pc = "bwd"
    /\ pc' = IF U32Less(U32(0), i) THEN "bwd_t1" ELSE "lap_sleep"
    /\ i' = U32Dec(i)
    /\ UNCHANGED <<n, err, ret, env, level, log, console, pinOps, lapTrace,
                   entry, blinkCalls, laps>>

\* backward body, first gpio_pin_toggle_dt(&leds[i]);
Bwd_Toggle1 ==
    /\ pc = "bwd_t1"
    /\ level' = Toggle(level, Val(i))
    /\ lapTrace' = Append(lapTrace, ToggleOp(Val(i)))
    /\ pc' = "bwd_sleep"
    /\ UNCHANGED <<i, n, err, ret, env, log, console, pinOps, entry,
                   blinkCalls, laps>>

\* k_msleep(STEP_DELAY_MS);
Bwd_Sleep ==
    /\ pc = "bwd_sleep"
    /\ lapTrace' = Append(lapTrace, SleepOp(STEP_DELAY_MS))
    /\ pc' = "bwd_t2"
    /\ UNCHANGED <<i, n, err, ret, env, level, log, console, pinOps, entry,
                   blinkCalls, laps>>

\* Variant: the restoring toggle has no effect on the pin.
Bwd_Toggle2_NoRestore ==
    /\ pc = "bwd_t2"
    /\ lapTrace' = Append(lapTrace, ToggleOp(Val(i)))
    /\ pc' = "bwd"
    /\ UNCHANGED <<i, n, err, ret, env, level, log, console, pinOps, entry,
                   blinkCalls, laps>>

\* backward body, second gpio_pin_toggle_dt(&leds[i]);
Bwd_Toggle2 ==
    /\ pc = "bwd_t2"
    /\ level' = Toggle(level, Val(i))
    /\ lapTrace' = Append(lapTrace, ToggleOp(Val(i)))
    /\ pc' = "bwd"
    /\ UNCHANGED <<i, n, err, ret, env, log, console, pinOps, entry,
                   blinkCalls, laps>>

\* k_msleep(LAP_DELAY_MS);
Lap_Sleep ==
    /\ pc = "lap_sleep"
    /\ lapTrace' = Append(lapTrace, SleepOp(LAP_DELAY_MS))
    /\ pc' = "lap_ret"
    /\ UNCHANGED <<i, n, err, ret, env, level, log, console, pinOps, entry,
                   blinkCalls, laps>>

\* Variant: main returns 0 after the first lap instead of looping.
Lap_Return_Exit ==
    /\ pc = "lap_ret"
    /\ laps' = IF laps < MaxLaps THEN laps + 1 ELSE laps
    /\ ret' = 0
    /\ pc' = "done"
    /\ UNCHANGED <<i, n, err, env, level, log, console, pinOps, lapTrace,
                   entry, blinkCalls>>

\* return of do_chase_lap to the for (;;) of main.
Lap_Return ==
    /\ pc = "lap_ret"
    /\ laps' = IF laps < MaxLaps THEN laps + 1 ELSE laps
    /\ pc' = "main_loop"
    /\ UNCHANGED <<i, n, err, ret, env, level, log, console, pinOps,
                   lapTrace, entry, blinkCalls>>

(* ---------------------------------------------------------------------- *)
(* Specifications                                                          *)
(* ---------------------------------------------------------------------- *)
InitLedsSteps == Init_Test \/ Init_Ready \/ Init_Configure

StartupBlinkSteps ==
    Blink_Test \/ Blink_On \/ Blink_OnHold \/ Blink_Off \/ Blink_OffHold

ChaseLapSteps ==
    \/ Fwd_Toggle1 \/ Fwd_Sleep \/ Fwd_Toggle2 \/ Fwd_Exit
    \/ Bwd_Test \/ Bwd_Toggle1 \/ Bwd_Sleep \/ Bwd_Toggle2
    \/ Lap_Sleep \/ Lap_Return

\* The whole program, from the entry of main.
Next ==
    \/ Main_CallInit
    \/ InitLedsSteps
    \/ Main_InitFailed
    \/ Main_LogReady
    \/ Main_CallBlink
    \/ StartupBlinkSteps
    \/ Main_CallLap
    \/ ChaseLapSteps

Spec == Init /\ [][Next]_vars

\* The single thread always makes its next step when it has one.
FairSpec == Spec /\ WF_vars(Next)

\* startup_blink called on its own, from any pin levels.
InitBlink ==
    /\ pc = "main_blink"
    /\ i = U32(0)
    /\ n = U32(0)
    /\ err = 0
    /\ ret = "none"
    /\ ready = [k \in Leds |-> TRUE]
    /\ cfgErr = [k \in Leds |-> 0]
    /\ level \in [Leds -> {0, 1}]
    /\ log = <<>>
    /\ console = <<>>
    /\ pinOps = <<>>
    /\ lapTrace = <<>>
    /\ entry = level
    /\ blinkCalls = 0
    /\ laps = 0

NextBlink == Main_CallBlink \/ StartupBlinkSteps

SpecBlink == InitBlink /\ [][NextBlink]_vars

\* do_chase_lap called over and over, from any pin levels.
InitLap ==
    /\ pc = "main_loop"
    /\ i = U32(0)
    /\ n = U32(0)
    /\ err = 0
    /\ ret = "none"
    /\ ready = [k \in Leds |-> TRUE]
    /\ cfgErr = [k \in Leds |-> 0]
    /\ level \in [Leds -> {0, 1}]
    /\ log = <<>>
    /\ console = <<>>
    /\ pinOps = <<>>
    /\ lapTrace = <<>>
    /\ entry = level
    /\ blinkCalls = 0
    /\ laps = 0

NextLap == Main_CallLap \/ ChaseLapSteps

SpecLap == InitLap /\ [][NextLap]_vars

(* ---------------------------------------------------------------------- *)
(* Vocabulary of the properties                                            *)
(* ---------------------------------------------------------------------- *)
Last(s) == s[Len(s)]

AllGood == \A k \in Leds : ready[k] /\ cfgErr[k] = 0

GoodBelow(k) == \A j \in Leds : j < k => (ready[j] /\ cfgErr[j] = 0)

\* LED k is the first one to fail, and it fails its readiness check.
FirstNotReady(k) == GoodBelow(k) /\ ~ready[k]

\* LED k is the first one to fail, and it fails its configuration.
FirstConfigureFails(k) == GoodBelow(k) /\ ready[k] /\ cfgErr[k] # 0

\* init_leds has returned to main.
InitReturned == pc \notin {"main", "init_test", "init_ready", "init_cfg"}

\* The driver calls a run of init_leds makes for LEDs 0 .. k-1 when all of
\* them are ready and configure.
RECURSIVE GoodInitOps(_)
GoodInitOps(k) ==
    IF k = 0 THEN <<>>
    ELSE GoodInitOps(k - 1) \o << <<"is_ready", k - 1>>, <<"configure", k - 1, 0>> >>

\* Indices of the elements of s whose first field is kind.
OpIndices(s, kind) == {x \in 1 .. Len(s) : s[x][1] = kind}

ActiveLeds == {k \in Leds : level[k] = 1}

BlinkPcs == {"blink_test", "blink_on", "blink_off"}

LapPcs == {"fwd", "fwd_sleep", "fwd_t2", "bwd", "bwd_t1", "bwd_sleep",
           "bwd_t2", "lap_sleep", "lap_ret"}

(* ---------------------------------------------------------------------- *)
(* Properties                                                              *)
(* ---------------------------------------------------------------------- *)

\* C1: when LED k is the first LED to fail and it is not ready, init_leds
\* returns -ENODEV after logging an error naming k; the driver calls made
\* are exactly check+configure of 0 .. k-1 followed by the check of k, so
\* k is not configured, nothing above k is touched, and every LED below k
\* is an inactive output.
C1_NotReadyFailFast ==
    \A k \in Leds :
        (FirstNotReady(k) /\ InitReturned) =>
            /\ err = 0 - ENODEV
            /\ Last(log) = <<"ERR", "GPIO device not ready", k>>
            /\ pinOps = GoodInitOps(k) \o << <<"is_ready", k>> >>
            /\ \A j \in Leds : j < k => level[j] = 0
            /\ \A j \in Leds : j >= k => level[j] = entry[j]

C1_Witness ==
    /\ pc = "main_check"
    /\ FirstNotReady(2)
    /\ ready[3]
    /\ entry[0] = 1

\* C2: when LED k is the first LED to fail and its configuration returns
\* the code c # 0, init_leds returns exactly c after logging an error with
\* k and c, and the driver calls made stop at the configure call of k.
C2_ConfigureFailFast ==
    \A k \in Leds :
        (FirstConfigureFails(k) /\ InitReturned) =>
            /\ err = cfgErr[k]
            /\ Last(log) = <<"ERR", "configure failed", k, cfgErr[k]>>
            /\ pinOps = GoodInitOps(k) \o
                          << <<"is_ready", k>>, <<"configure", k, 0>> >>

C2_Witness ==
    /\ pc = "main_check"
    /\ FirstConfigureFails(1)
    /\ cfgErr[1] = 0 - EINVAL
    /\ ready[2] /\ cfgErr[2] = 0

\* C3: when every LED is ready and configures, init_leds returns 0 having
\* configured each LED to inactive exactly once, in the order 0 .. N-1,
\* with no other pin operation and nothing logged or printed.
C3_InitSuccess ==
    (AllGood /\ pc = "main_check") =>
        /\ err = 0
        /\ pinOps = GoodInitOps(NUM_LEDS)
        /\ \A k \in Leds :
              Cardinality({x \in OpIndices(pinOps, "configure") :
                              pinOps[x] = <<"configure", k, 0>>}) = 1
        /\ OpIndices(pinOps, "set") = {}
        /\ lapTrace = <<>>
        /\ \A k \in Leds : level[k] = 0
        /\ log = <<>>
        /\ console = <<>>

C3_Witness ==
    /\ AllGood
    /\ pc = "main_check"
    /\ entry = [k \in Leds |-> 1]

\* The value init_leds returns, read off the environment.
ExpectedInitResult ==
    IF \E k \in Leds : FirstNotReady(k) THEN 0 - ENODEV
    ELSE IF \E k \in Leds : FirstConfigureFails(k)
         THEN cfgErr[CHOOSE k \in Leds : FirstConfigureFails(k)]
         ELSE 0

C4_Safe ==
    /\ pc \notin (BlinkPcs \cup LapPcs \cup {"main_blink", "main_loop"})
    /\ OpIndices(pinOps, "set") = {}
    /\ lapTrace = <<>>
    /\ blinkCalls = 0
    /\ laps = 0
    /\ pc = "done" => (ret = ExpectedInitResult /\ ret = err /\ ret # 0)

\* C4: in an execution whose initialization fails, main terminates, the
\* value it returns is the code init_leds produced, and neither
\* startup_blink nor do_chase_lap is entered: no pin is ever set or toggled.
C4_FailureTerminates ==
    /\ [](~AllGood => C4_Safe)
    /\ []<>(~AllGood => pc = "done")

C4_Witness ==
    /\ pc = "done"
    /\ ~AllGood
    /\ ret = 0 - EIO

\* C5: every call of do_chase_lap ends with every LED at the level it had
\* when the call began, whatever the levels were and however many calls
\* came before.
C5_LapStateNeutral ==
    (pc = "lap_ret" \/ (pc = "main_loop" /\ laps > 0)) => level = entry

C5_Witness ==
    /\ pc = "lap_ret"
    /\ laps >= 2
    /\ entry[0] = 1 /\ entry[1] = 0 /\ entry[3] = 1

LapToggleOrder ==
    [x \in 1 .. Cardinality(OpIndices(lapTrace, "toggle")) |->
        LET idx == CHOOSE y \in OpIndices(lapTrace, "toggle") :
                      Cardinality({z \in OpIndices(lapTrace, "toggle") : z <= y}) = x
        IN lapTrace[idx][2]]

\* C6: a lap toggles, with a step delay inside each pair, LEDs 0,1,2,3 and
\* then 3,2,1,0: eight toggle pairs, sixteen toggles, no endpoint skipped,
\* and one lap delay at the end.
C6_LapOrder ==
    pc = "lap_ret" =>
        /\ LapToggleOrder = <<0, 0, 1, 1, 2, 2, 3, 3, 3, 3, 2, 2, 1, 1, 0, 0>>
        /\ Len(lapTrace) = 25
        /\ \A x \in 1 .. 8 :
              /\ lapTrace[3 * x - 2][1] = "toggle"
              /\ lapTrace[3 * x - 1] = <<"sleep", STEP_DELAY_MS>>
              /\ lapTrace[3 * x] = lapTrace[3 * x - 2]
        /\ lapTrace[25] = <<"sleep", LAP_DELAY_MS>>

C6_Witness ==
    /\ pc = "lap_ret"
    /\ laps = 1
    /\ Len(lapTrace) = 25

\* C7: startup_blink makes exactly two cycles, each setting LEDs 0 .. 3
\* active and then LEDs 0 .. 3 inactive, and every LED is inactive when it
\* returns, whatever the levels were before.
C7_BlinkTwice ==
    (pc = "main_loop" /\ blinkCalls = 1) =>
        /\ pinOps = << <<"set", 0, 1>>, <<"set", 1, 1>>, <<"set", 2, 1>>,
                       <<"set", 3, 1>>, <<"sleep", 0>>,
                       <<"set", 0, 0>>, <<"set", 1, 0>>, <<"set", 2, 0>>,
                       <<"set", 3, 0>>, <<"sleep", 100>>,
                       <<"set", 0, 1>>, <<"set", 1, 1>>, <<"set", 2, 1>>,
                       <<"set", 3, 1>>, <<"sleep", 0>>,
                       <<"set", 0, 0>>, <<"set", 1, 0>>, <<"set", 2, 0>>,
                       <<"set", 3, 0>>, <<"sleep", 100>> >>
        /\ \A k \in Leds : level[k] = 0

C7_Witness ==
    /\ pc = "main_loop"
    /\ blinkCalls = 1
    /\ entry[1] = 1 /\ entry[2] = 0

C8_Safe ==
    /\ pc # "done" /\ ret = "none" /\ err = 0 /\ console = <<>>
    /\ log \in {<<>>, << <<"INF", "LEDs ready", 4>> >>}
    /\ (~InitReturned \/ pc = "main_check") => log = <<>>
    /\ (InitReturned /\ pc # "main_check") => log # <<>>
    /\ log # <<>> =>
          (Len(pinOps) >= 2 * NUM_LEDS
             /\ SubSeq(pinOps, 1, 2 * NUM_LEDS) = GoodInitOps(NUM_LEDS))
    /\ log = <<>> =>
          (OpIndices(pinOps, "set") = {} /\ lapTrace = <<>> /\ blinkCalls = 0)
    /\ blinkCalls <= 1
    /\ pc \in (LapPcs \cup {"main_loop"}) =>
          (blinkCalls = 1 /\ Cardinality(OpIndices(pinOps, "set")) = 16)

\* C8: with four ready, configurable LEDs main logs "LEDs ready: 4" once,
\* not before init_leds has returned (the log is empty until then, and all
\* four LEDs are configured when the line appears) and before the first
\* pin set, calls startup_blink once,
\* and then runs chase laps for ever: it never returns, takes no error
\* path, and toggles every LED again and again.
C8_EndToEnd ==
    /\ [](AllGood => C8_Safe)
    /\ \A k \in Leds :
          []<>(AllGood => (pc = "fwd_sleep" /\ i = U32(k)
                             /\ Last(lapTrace) = <<"toggle", k>>))
    /\ \A k \in Leds :
          []<>(AllGood => (pc = "bwd_sleep" /\ i = U32(k)
                             /\ Last(lapTrace) = <<"toggle", k>>))

C8_Witness ==
    /\ AllGood
    /\ pc = "bwd_sleep"
    /\ i = U32(0)
    /\ laps = MaxLaps
    /\ log = << <<"INF", "LEDs ready", 4>> >>

\* C9: a failure at LED k is logged at error level, with k (and the code,
\* for a configuration failure), before init_leds returns; main then prints
\* one line with the code it returns; a successful initialization logs no
\* error and prints nothing.
C9_Reporting ==
    /\ \A k \in Leds : (FirstNotReady(k) /\ InitReturned) =>
          log = << <<"ERR", "GPIO device not ready", k>> >>
    /\ \A k \in Leds : (FirstConfigureFails(k) /\ InitReturned) =>
          log = << <<"ERR", "configure failed", k, cfgErr[k]>> >>
    /\ pc = "done" =>
          (console = << <<"LED init failed", ret>> >> /\ ret = ExpectedInitResult)
    /\ pc # "done" => console = <<>>
    /\ AllGood => (OpIndices(log, "ERR") = {} /\ console = <<>>)

C9_Witness ==
    /\ pc = "done"
    /\ FirstConfigureFails(3)
    /\ console = << <<"LED init failed", 0 - ENOTSUP>> >>

\* C10: once startup_blink has returned, at most one LED is active: none
\* between the toggle pairs, at the start and the end of a lap and in the
\* lap delay, and exactly the visited LED during a step delay.
C10_AtMostOneActive ==
    (AllGood /\ pc \in (LapPcs \cup {"main_loop"})) =>
        /\ Cardinality(ActiveLeds) <= 1
        /\ pc \in {"fwd_sleep", "fwd_t2", "bwd_sleep", "bwd_t2"} =>
              ActiveLeds = {Val(i)}
        /\ pc \in {"main_loop", "fwd", "bwd", "bwd_t1", "lap_sleep", "lap_ret"} =>
              ActiveLeds = {}

C10_Witness ==
    /\ pc = "bwd_sleep"
    /\ ActiveLeds = {3}
    /\ laps >= 1

====
